---- MODULE Spec2Model ----
(***************************************************************************)
(* THERMASCAN battery digital twin (src/script.js): the simulation and     *)
(* anomaly-detection engine of the 8x12 pack.                              *)
(*                                                                         *)
(* Numbers are fixed point.  temperature, soc, soh, current and resistance *)
(* are in hundredths of their unit (55.00 C = 5500), voltage is in         *)
(* millivolts (4.2 V = 4200).  Math.random() yields r / RandRes for an     *)
(* integer r in 0 .. RandRes-1; a handler consumes the draws of one stream *)
(* in the order the code calls Math.random().  The clock advances by one   *)
(* with every handler run.  updateCharts only copies tempHistory and the   *)
(* soh values into the chart widgets and is left out, as are the tooltip   *)
(* and the mode buttons, which write no engine state.                      *)
(***************************************************************************)
EXTENDS Integers, Sequences, FiniteSets, TLC

VARIABLES
    batteryData,    \* the pack: index -> BatteryCell
    tempHistory,    \* the temperature history
    statusText,     \* textContent of #statusText (the banner)
    clusterMarked,  \* indices whose grid element carries class thermal-cluster
    metrics,        \* the counts last written by updateMetrics
    now,            \* the clock read by new Date()
    lastOp,         \* the handler that ran last and the fault it logged
    appended,       \* history: every sample ever pushed onto tempHistory
    nTicks,         \* history: number of periodic ticks executed
    call            \* the last direct call of a pure function, with its result

vars == <<batteryData, tempHistory, statusText, clusterMarked, metrics,
          now, lastOp, appended, nTicks, call>>

----------------------------------------------------------------------------
(* CONFIG *)
ROWS == 8
COLS == 12
COOL_MAX == 2800
NORMAL_MAX == 4000
ELEVATED_MAX == 4500
WARNING_MAX == 5500
CRITICAL == 5500
SOH_CRITICAL == 7000
HISTORY_MAX == 20

(* bounds of the exploration *)
MaxSteps == 3
MaxLongTicks == 25
MaxLongFaults == 1

----------------------------------------------------------------------------
(* Math.random *)
RandRes == 10

\* the k-th draw of a stream: an arithmetic progression modulo RandRes
Rand(seed, k) == (seed[1] + k * seed[2]) % RandRes

GenSeeds == { <<0, 1>>, <<3, 7>> }
TickSeeds == { <<0, 0>>, <<2, 3>> }
ManualSeeds == { <<0, 0>>, <<1, 0>>, <<3, 3>>, <<4, 7>>, <<4, 8>>, <<8, 2>> }
TimedSeeds == { <<0, 0>>, <<8, 2>>, <<8, 6>>, <<9, 0>> }
LongTickSeeds == { <<0, 0>> }
LongManualSeeds == { <<3, 3>>, <<8, 2>> }

Max(a, b) == IF a >= b THEN a ELSE b
Min(a, b) == IF a <= b THEN a ELSE b
Abs(a) == IF a >= 0 THEN a ELSE 0 - a

Length(pack) == Cardinality(DOMAIN pack)

\* f[lo] + ... + f[hi], summed by halves
RECURSIVE SumOver(_, _, _)
SumOver(f, lo, hi) ==
    IF lo > hi THEN 0
    ELSE IF lo = hi THEN f[lo]
    ELSE LET mid == (lo + hi) \div 2
         IN SumOver(f, lo, mid) + SumOver(f, mid + 1, hi)

\* pack.reduce((sum, cell) => sum + cell.<field>, 0)
SumVoltage(pack) == SumOver([i \in DOMAIN pack |-> pack[i].voltage], 0, Length(pack) - 1)
SumTemperature(pack) == SumOver([i \in DOMAIN pack |-> pack[i].temperature], 0, Length(pack) - 1)

\* Math.max(...temps), Math.min(...temps)
MaxOver(f) == CHOOSE m \in { f[i] : i \in DOMAIN f } : \A i \in DOMAIN f : f[i] <= m
MinOver(f) == CHOOSE m \in { f[i] : i \in DOMAIN f } : \A i \in DOMAIN f : f[i] >= m

----------------------------------------------------------------------------
(* class BatteryCell *)

\* Math.random() * (max - min) + min
randomInRange(min, max, r) == (r * (max - min)) \div RandRes + min

\* String(cellId).padStart(3, '0')
RECURSIVE padStart(_, _, _)
padStart(s, n, fill) == IF Len(s) >= n THEN s ELSE padStart(fill \o s, n, fill)

\* the constructor; its seven draws are k0 .. k0+6 of the stream
BatteryCell(id, row, col, seed, k0) ==
    [ id |-> id, row |-> row, col |-> col,
      temperature |-> randomInRange(2500, 3500, Rand(seed, k0)),
      voltage     |-> randomInRange(3600, 3800, Rand(seed, k0 + 1)),
      current     |-> randomInRange(-500, 2000, Rand(seed, k0 + 2)),
      soc         |-> randomInRange(6000, 10000, Rand(seed, k0 + 3)),
      soh         |-> randomInRange(8000, 10000, Rand(seed, k0 + 4)),
      resistance  |-> randomInRange(100, 500, Rand(seed, k0 + 5)),
      cycles      |-> (Rand(seed, k0 + 6) * (1200 - 200)) \div RandRes + 200,
      anomalyStatus |-> "NORMAL" ]

\* (Math.random() - 0.5) * width, width given in fixed-point units
Fluctuation(r, width) == ((2 * r - RandRes) * width) \div (2 * RandRes)

\* update with the clamping of the temperature left out
update_unclamped(cell, seed, k0) ==
    LET t == cell.temperature + Fluctuation(Rand(seed, k0), 50)
        v == cell.voltage + Fluctuation(Rand(seed, k0 + 1), 10)
        c == cell.current + Fluctuation(Rand(seed, k0 + 2), 200)
        s == cell.soc + Fluctuation(Rand(seed, k0 + 3), 50)
    IN [cell EXCEPT !.temperature = t,
                    !.voltage = Max(3000, Min(4200, v)),
                    !.current = c,
                    !.soc = Max(0, Min(10000, s))]

\* update also wearing the cell: soh drops by 0.01 per tick
update_aging(cell, seed, k0) ==
    LET t == cell.temperature + Fluctuation(Rand(seed, k0), 50)
        v == cell.voltage + Fluctuation(Rand(seed, k0 + 1), 10)
        c == cell.current + Fluctuation(Rand(seed, k0 + 2), 200)
        s == cell.soc + Fluctuation(Rand(seed, k0 + 3), 50)
    IN [cell EXCEPT !.temperature = Max(2000, Min(6000, t)),
                    !.voltage = Max(3000, Min(4200, v)),
                    !.current = c,
                    !.soc = Max(0, Min(10000, s)),
                    !.soh = cell.soh - 1]

\* BatteryCell.update; its four draws are k0 .. k0+3 of the stream
update(cell, seed, k0) ==
    LET t == cell.temperature + Fluctuation(Rand(seed, k0), 50)
        v == cell.voltage + Fluctuation(Rand(seed, k0 + 1), 10)
        c == cell.current + Fluctuation(Rand(seed, k0 + 2), 200)
        s == cell.soc + Fluctuation(Rand(seed, k0 + 3), 50)
    IN [cell EXCEPT !.temperature = Max(2000, Min(6000, t)),
                    !.voltage = Max(3000, Min(4200, v)),
                    !.current = c,
                    !.soc = Max(0, Min(10000, s))]

----------------------------------------------------------------------------
\* generateBatteryData with the two grid dimensions mixed up
generateBatteryData_byRows(seed) ==
    [ i \in 0 .. (ROWS * COLS - 1) |->
        BatteryCell("CELL-" \o padStart(ToString(i + 1), 3, "0"),
                    i \div ROWS, i % ROWS, seed, 7 * i) ]

(* generateBatteryData: row-major, cellId = index + 1 *)
generateBatteryData(seed) ==
    [ i \in 0 .. (ROWS * COLS - 1) |->
        BatteryCell("CELL-" \o padStart(ToString(i + 1), 3, "0"),
                    i \div COLS, i % COLS, seed, 7 * i) ]

----------------------------------------------------------------------------
(* thermal cluster detection *)

\* the neighbour list, in the order the two loops push it
Offsets == << <<-1, -1>>, <<-1, 0>>, <<-1, 1>>, <<0, -1>>, <<0, 1>>,
              <<1, -1>>, <<1, 0>>, <<1, 1>> >>

RECURSIVE NeighborsFrom(_, _, _)
NeighborsFrom(row, col, k) ==
    IF k > Len(Offsets) THEN << >>
    ELSE LET newRow == row + Offsets[k][1]
             newCol == col + Offsets[k][2]
         IN IF newRow >= 0 /\ newRow < ROWS /\ newCol >= 0 /\ newCol < COLS
            THEN <<newRow * COLS + newCol>> \o NeighborsFrom(row, col, k + 1)
            ELSE NeighborsFrom(row, col, k + 1)

\* getNeighbors without the column test: the list wraps around the row ends
RECURSIVE NeighborsFrom_wrap(_, _, _)
NeighborsFrom_wrap(row, col, k) ==
    IF k > Len(Offsets) THEN << >>
    ELSE LET newRow == row + Offsets[k][1]
             newCol == col + Offsets[k][2]
         IN IF newRow >= 0 /\ newRow < ROWS
               /\ newRow * COLS + newCol >= 0 /\ newRow * COLS + newCol < ROWS * COLS
            THEN <<newRow * COLS + newCol>> \o NeighborsFrom_wrap(row, col, k + 1)
            ELSE NeighborsFrom_wrap(row, col, k + 1)

getNeighbors_wrap(index) == NeighborsFrom_wrap(index \div COLS, index % COLS, 1)

getNeighbors(index) == NeighborsFrom(index \div COLS, index % COLS, 1)

\* isThermalCluster with the threshold NORMAL_MAX (40) in place of ELEVATED_MAX
isThermalCluster_at40(pack, index) ==
    IF pack[index].temperature < NORMAL_MAX THEN FALSE
    ELSE LET neighbors == getNeighbors(index)
             hotNeighbors == { k \in 1 .. Len(neighbors) :
                                 pack[neighbors[k]].temperature >= NORMAL_MAX }
         IN Cardinality(hotNeighbors) >= 2

isThermalCluster(pack, index) ==
    IF pack[index].temperature < ELEVATED_MAX THEN FALSE
    ELSE LET neighbors == getNeighbors(index)
             hotNeighbors == { k \in 1 .. Len(neighbors) :
                                 pack[neighbors[k]].temperature >= ELEVATED_MAX }
         IN Cardinality(hotNeighbors) >= 2

----------------------------------------------------------------------------
(* anomaly detection *)

\* detectCell with >= in the temperature rule
detectCell_inclusive(cell, sum, n) ==
    LET s1 == IF cell.temperature >= CRITICAL THEN "CRITICAL"
              ELSE IF cell.temperature > WARNING_MAX THEN "WARNING"
              ELSE "NORMAL"
        s2 == IF 10 * Abs(cell.voltage * n - sum) > sum /\ s1 = "NORMAL"
              THEN "WARNING" ELSE s1
        s3 == IF cell.soh < SOH_CRITICAL THEN "CRITICAL" ELSE s2
    IN [cell EXCEPT !.anomalyStatus = s3]

\* detectCell with the state-of-health rule escalating only a NORMAL cell
detectCell_sohFromNormal(cell, sum, n) ==
    LET s1 == IF cell.temperature > CRITICAL THEN "CRITICAL"
              ELSE IF cell.temperature > WARNING_MAX THEN "WARNING"
              ELSE "NORMAL"
        s2 == IF 10 * Abs(cell.voltage * n - sum) > sum /\ s1 = "NORMAL"
              THEN "WARNING" ELSE s1
        s3 == IF cell.soh < SOH_CRITICAL /\ s2 = "NORMAL" THEN "CRITICAL" ELSE s2
    IN [cell EXCEPT !.anomalyStatus = s3]

\* detectCell with the voltage rule not testing for NORMAL
detectCell_voltageOverrides(cell, sum, n) ==
    LET s1 == IF cell.temperature > CRITICAL THEN "CRITICAL"
              ELSE IF cell.temperature > WARNING_MAX THEN "WARNING"
              ELSE "NORMAL"
        s2 == IF 10 * Abs(cell.voltage * n - sum) > sum
              THEN "WARNING" ELSE s1
        s3 == IF cell.soh < SOH_CRITICAL THEN "CRITICAL" ELSE s2
    IN [cell EXCEPT !.anomalyStatus = s3]

\* the per-cell body of detectAnomalies; the average voltage is sum / n,
\* so |v - avg| / avg > 0.1 is 10 * |v * n - sum| > sum
detectCell(cell, sum, n) ==
    LET s1 == IF cell.temperature > CRITICAL THEN "CRITICAL"
              ELSE IF cell.temperature > WARNING_MAX THEN "WARNING"
              ELSE "NORMAL"
        s2 == IF 10 * Abs(cell.voltage * n - sum) > sum /\ s1 = "NORMAL"
              THEN "WARNING" ELSE s1
        s3 == IF cell.soh < SOH_CRITICAL THEN "CRITICAL" ELSE s2
    IN [cell EXCEPT !.anomalyStatus = s3]

\* the pack after detectAnomalies
detectAnomalies(pack) ==
    LET sum == SumVoltage(pack)
    IN [ i \in DOMAIN pack |-> detectCell(pack[i], sum, Length(pack)) ]

\* updateAnomalyStatus asking for more than 3 cluster members
updateAnomalyStatus_moreThan3(pack) ==
    LET criticalCells == { i \in DOMAIN pack : pack[i].anomalyStatus = "CRITICAL" }
        warningCells == { i \in DOMAIN pack : pack[i].anomalyStatus = "WARNING" }
        clusterCells == { i \in DOMAIN pack : isThermalCluster(pack, i) }
    IN IF Cardinality(criticalCells) > 0
       THEN IF Cardinality(clusterCells) > 3 THEN "THERMAL CLUSTER DETECTED"
            ELSE "CRITICAL"
       ELSE IF Cardinality(warningCells) > 0 THEN "WARNING"
       ELSE "NORMAL"

\* the banner written by updateAnomalyStatus
updateAnomalyStatus(pack) ==
    LET criticalCells == { i \in DOMAIN pack : pack[i].anomalyStatus = "CRITICAL" }
        warningCells == { i \in DOMAIN pack : pack[i].anomalyStatus = "WARNING" }
        clusterCells == { i \in DOMAIN pack : isThermalCluster(pack, i) }
    IN IF Cardinality(criticalCells) > 0
       THEN IF Cardinality(clusterCells) >= 3 THEN "THERMAL CLUSTER DETECTED"
            ELSE "CRITICAL"
       ELSE IF Cardinality(warningCells) > 0 THEN "WARNING"
       ELSE "NORMAL"

----------------------------------------------------------------------------
(* metrics and history *)

\* the sample pushed by updateMetrics
Sample(pack, time) ==
    LET temps == [i \in DOMAIN pack |-> pack[i].temperature]
        n == Length(pack)
    IN [ time |-> time,
         avg |-> SumTemperature(pack) \div n,
         max |-> MaxOver(temps),
         min |-> MinOver(temps) ]

\* PushHistory shifting as soon as the length reaches 20
PushHistory_early(history, sample) ==
    LET pushed == Append(history, sample)
    IN IF Len(pushed) >= HISTORY_MAX THEN Tail(pushed) ELSE pushed

\* tempHistory.push(sample); if (tempHistory.length > 20) tempHistory.shift()
PushHistory(history, sample) ==
    LET pushed == Append(history, sample)
    IN IF Len(pushed) > HISTORY_MAX THEN Tail(pushed) ELSE pushed

\* the counts updateMetrics writes to #warningCells and #faultyCells
updateMetrics(pack) ==
    [ warningCells |-> Cardinality({ i \in DOMAIN pack : pack[i].anomalyStatus = "WARNING" }),
      faultyCells |-> Cardinality({ i \in DOMAIN pack : pack[i].anomalyStatus = "CRITICAL" }) ]

\* the thermal-cluster classes set by updateBatteryGrid
updateBatteryGrid(pack) == { i \in DOMAIN pack : isThermalCluster(pack, i) }

----------------------------------------------------------------------------
(* fault simulation *)

\* Math.floor(Math.random() * batteryData.length)
randomIndex(pack, r) == (r * Length(pack)) \div RandRes

\* the slice taking four neighbours
Slice3_four(neighbors) == SubSeq(neighbors, 1, Min(4, Len(neighbors)))

\* neighbors.slice(0, 3)
Slice3(neighbors) == SubSeq(neighbors, 1, Min(3, Len(neighbors)))

\* the forEach writing ELEVATED_MAX + Math.random() * 15 to each neighbour
HeatEach_hot(pack, targets, j, seed, k0) ==
    [ i \in DOMAIN pack |->
        IF \E k \in j .. Len(targets) : targets[k] = i
        THEN LET k == CHOOSE k \in j .. Len(targets) : targets[k] = i
             IN [pack[i] EXCEPT !.temperature =
                    ELEVATED_MAX + (Rand(seed, k0 + k - 1) * 1500) \div RandRes]
        ELSE pack[i] ]

\* neighbors.slice(0, 3).forEach(n => batteryData[n].temperature = ...),
\* the j-th write taking draw k0 + j - 1
RECURSIVE HeatEach(_, _, _, _, _)
HeatEach(pack, targets, j, seed, k0) ==
    IF j > Len(targets) THEN pack
    ELSE HeatEach([pack EXCEPT ![targets[j]].temperature =
                        ELEVATED_MAX + (Rand(seed, k0 + j - 1) * 500) \div RandRes],
                  targets, j + 1, seed, k0)

\* avgVoltage * (1 + CONFIG.VOLTAGE_DEVIATION + 0.05), rounded down to 1 mV
ImbalanceVoltage(pack) == (SumVoltage(pack) * 115) \div (Length(pack) * 100)

\* simulateFault, drawing from k0 on: the pack it leaves, the fault it logs
simulateFault(pack, seed, k0) ==
    LET faultType == Rand(seed, k0)
        index == randomIndex(pack, Rand(seed, k0 + 1))
    IN IF 100 * faultType < 33 * RandRes
       THEN [ pack |-> [pack EXCEPT ![index].temperature =
                            CRITICAL + (Rand(seed, k0 + 2) * 1000) \div RandRes],
              fault |-> "isolated", index |-> index ]
       ELSE IF 100 * faultType < 66 * RandRes
       THEN [ pack |-> HeatEach([pack EXCEPT ![index].temperature =
                                    ELEVATED_MAX + (Rand(seed, k0 + 2) * 500) \div RandRes],
                                Slice3(getNeighbors(index)), 1, seed, k0 + 3),
              fault |-> "cluster", index |-> index ]
       ELSE [ pack |-> [pack EXCEPT ![index].voltage = ImbalanceVoltage(pack)],
              fault |-> "voltage", index |-> index ]

----------------------------------------------------------------------------
(* the handlers, each run to completion *)

NoCall == [fn |-> "none", arg |-> 0, ret |-> << >>]
NoMetrics == [warningCells |-> 0, faultyCells |-> 0]

\* initialize(): generateBatteryData, renderBatteryGrid
initialize(seed) ==
    /\ batteryData = generateBatteryData(seed)
    /\ tempHistory = << >>
    /\ statusText = "(markup)"
    /\ clusterMarked = {}
    /\ metrics = NoMetrics
    /\ now = 0
    /\ lastOp = [handler |-> "initialize", fault |-> "none", index |-> 0]
    /\ appended = << >>
    /\ nTicks = 0
    /\ call = NoCall

\* the setInterval callback of startUpdateLoop
updateLoop(seed) ==
    \E detected \in { detectAnomalies([ i \in DOMAIN batteryData |->
                                           update(batteryData[i], seed, 4 * i) ]) } :
    \E sample \in { Sample(detected, now + 1) } :
       /\ batteryData' = detected
       /\ statusText' = updateAnomalyStatus(detected)
       /\ clusterMarked' = updateBatteryGrid(detected)
       /\ metrics' = updateMetrics(detected)
       /\ tempHistory' = PushHistory(tempHistory, sample)
       /\ appended' = Append(appended, sample)
       /\ nTicks' = nTicks + 1
       /\ now' = now + 1
       /\ lastOp' = [handler |-> "updateLoop", fault |-> "none", index |-> 0]
       /\ UNCHANGED call

\* the setInterval callback of startFaultSimulation
faultTimer(seed) ==
    LET fire == 10 * Rand(seed, 0) > 7 * RandRes
    IN \E f \in { simulateFault(batteryData, seed, 1) } :
       /\ batteryData' = IF fire THEN f.pack ELSE batteryData
       /\ lastOp' = IF fire
                    THEN [handler |-> "faultTimer", fault |-> f.fault, index |-> f.index]
                    ELSE [handler |-> "faultTimer", fault |-> "none", index |-> 0]
       /\ now' = now + 1
       /\ UNCHANGED <<tempHistory, statusText, clusterMarked, metrics,
                      appended, nTicks, call>>

\* manualFaultSimulation: simulateFault(); updateBatteryGrid(); detectAnomalies()
manualFaultSimulation(seed) ==
    \E f \in { simulateFault(batteryData, seed, 0) } :
    \E sample \in { Sample(f.pack, now + 1) } :
    \E detected \in { detectAnomalies(f.pack) } :
       /\ clusterMarked' = updateBatteryGrid(f.pack)
       /\ metrics' = updateMetrics(f.pack)
       /\ tempHistory' = PushHistory(tempHistory, sample)
       /\ appended' = Append(appended, sample)
       /\ batteryData' = detected
       /\ statusText' = updateAnomalyStatus(detected)
       /\ now' = now + 1
       /\ lastOp' = [handler |-> "manualFaultSimulation", fault |-> f.fault, index |-> f.index]
       /\ UNCHANGED <<nTicks, call>>

----------------------------------------------------------------------------
(* the engine: the three handlers interleaved, MaxSteps handler runs *)

Init == \E seed \in GenSeeds : initialize(seed)

Tick == now < MaxSteps /\ \E seed \in TickSeeds : updateLoop(seed)
TimedFault == now < MaxSteps /\ \E seed \in TimedSeeds : faultTimer(seed)
ManualFault == now < MaxSteps /\ \E seed \in ManualSeeds : manualFaultSimulation(seed)

Next == Tick \/ TimedFault \/ ManualFault

Spec == Init /\ [][Next]_vars

(* the long run: MaxLongTicks ticks, MaxLongFaults clicks of the button *)

LongTick == nTicks < MaxLongTicks /\ \E seed \in LongTickSeeds : updateLoop(seed)
LongManualFault ==
    /\ now - nTicks < MaxLongFaults
    /\ nTicks < MaxLongTicks
    /\ \E seed \in LongManualSeeds : manualFaultSimulation(seed)

NextLong == LongTick \/ LongManualFault

SpecLong == Init /\ [][NextLong]_vars

(* the engine with generateBatteryData invoked once more, at any moment:   *)
(* the pack is replaced, the page and the history stay as they are         *)

Regenerate ==
    /\ now < MaxSteps
    /\ call.fn = "none"
    /\ \E seed \in GenSeeds : batteryData' = generateBatteryData(seed)
    /\ call' = [fn |-> "generateBatteryData", arg |-> 0, ret |-> << >>]
    /\ lastOp' = [handler |-> "generateBatteryData", fault |-> "none", index |-> 0]
    /\ now' = now + 1
    /\ UNCHANGED <<tempHistory, statusText, clusterMarked, metrics, appended, nTicks>>

NextRegen == Tick \/ TimedFault \/ ManualFault \/ Regenerate

SpecRegen == Init /\ [][NextRegen]_vars

(* direct calls of detectAnomalies and getNeighbors on a given pack: a     *)
(* generated pack in which one cell holds a given temperature, voltage and *)
(* state of health                                                         *)

ProbeCells == { 0, 19 }
ProbeTemps == { 2500, 5500, 5600 }
ProbeVolts == { 3300, 3700, 4300 }
ProbeSohs == { 6500, 6999, 7000 }

InitFn ==
    \E seed \in GenSeeds, i \in ProbeCells, t \in ProbeTemps,
       v \in ProbeVolts, h \in ProbeSohs :
        /\ batteryData = [generateBatteryData(seed) EXCEPT ![i].temperature = t,
                                                            ![i].voltage = v,
                                                            ![i].soh = h]
        /\ tempHistory = << >>
        /\ statusText = "(markup)"
        /\ clusterMarked = {}
        /\ metrics = NoMetrics
        /\ now = 0
        /\ lastOp = [handler |-> "none", fault |-> "none", index |-> 0]
        /\ appended = << >>
        /\ nTicks = 0
        /\ call = NoCall

CallDetectAnomalies ==
    /\ call.fn = "none"
    /\ batteryData' = detectAnomalies(batteryData)
    /\ statusText' = updateAnomalyStatus(batteryData')
    /\ call' = [fn |-> "detectAnomalies", arg |-> 0, ret |-> << >>]
    /\ UNCHANGED <<tempHistory, clusterMarked, metrics, now, lastOp, appended, nTicks>>

CallGetNeighbors ==
    /\ call.fn = "none"
    /\ \E index \in DOMAIN batteryData :
          call' = [fn |-> "getNeighbors", arg |-> index, ret |-> getNeighbors(index)]
    /\ UNCHANGED <<batteryData, tempHistory, statusText, clusterMarked, metrics,
                   now, lastOp, appended, nTicks>>

NextFn == CallDetectAnomalies \/ CallGetNeighbors

SpecFn == InitFn /\ [][NextFn]_vars

----------------------------------------------------------------------------
(* properties *)

Cells == DOMAIN batteryData

InBounds(cell) ==
    /\ cell.temperature >= 2000 /\ cell.temperature <= 6000
    /\ cell.voltage >= 3000 /\ cell.voltage <= 4200
    /\ cell.soc >= 0 /\ cell.soc <= 10000

\* a handler that ends with the detection pass and the grid refresh done on
\* the pack as it now stands
Fresh == lastOp.handler \in {"updateLoop", "manualFaultSimulation"}

\* the set of indices getNeighbors(i) lists
NeighborSet(i) == LET nb == getNeighbors(i) IN { nb[k] : k \in 1 .. Len(nb) }

\* C1: right after generateBatteryData and right after every tick, every
\* cell has temperature in [20,60], voltage in [3.0,4.2] and soc in [0,100],
\* whatever a fault injection wrote before the tick.
C1_BoundsAfterCreateAndTick ==
    lastOp.handler \in {"initialize", "updateLoop"} =>
        \A i \in Cells : InBounds(batteryData[i])

\* a tick has clamped an injected temperature and an injected voltage
C1_Witness ==
    /\ lastOp.handler = "updateLoop"
    /\ \E i \in Cells : batteryData[i].temperature = 6000
    /\ \E i \in Cells : batteryData[i].voltage = 4200

\* C2: in every reachable state, under any interleaving of the handlers,
\* every cell has temperature in [20,60], voltage in [3.0,4.2] and soc in
\* [0,100].
C2_BoundsAlways == \A i \in Cells : InBounds(batteryData[i])

\* no rule of the detection pass other than the temperature rule applies
NoOtherRule(i) ==
    /\ batteryData[i].soh >= SOH_CRITICAL
    /\ LET sum == SumVoltage(batteryData)
       IN 10 * Abs(batteryData[i].voltage * Length(batteryData) - sum) <= sum

\* C3 as stated: after detection a cell at 56 with no other rule applying
\* is CRITICAL, and so is a cell at exactly 55.0.
C3_Original ==
    Fresh => \A i \in Cells :
        (batteryData[i].temperature \in {5500, 5600} /\ NoOtherRule(i))
            => batteryData[i].anomalyStatus = "CRITICAL"

\* C3 amended: after detection a cell at 56 with no other rule applying is
\* CRITICAL, and a cell at exactly 55.0 with no other rule applying is NORMAL.
C3_CriticalAbove55 ==
    Fresh => \A i \in Cells :
        (batteryData[i].temperature \in {5500, 5600} /\ NoOtherRule(i)) =>
            /\ batteryData[i].temperature = 5600 => batteryData[i].anomalyStatus = "CRITICAL"
            /\ batteryData[i].temperature = 5500 => batteryData[i].anomalyStatus = "NORMAL"

\* detection has classified a cell at 56 and a cell at exactly 55.0
C3_Witness ==
    /\ Fresh
    /\ \E i \in Cells : /\ NoOtherRule(i)
                        /\ batteryData[i].temperature = 5600
                        /\ batteryData[i].anomalyStatus = "CRITICAL"
    /\ \E i \in Cells : /\ NoOtherRule(i)
                        /\ batteryData[i].temperature = 5500
                        /\ batteryData[i].anomalyStatus = "NORMAL"

\* the cells the grid marks at threshold th: at least th themselves, with at
\* least two neighbours at least th
HotWithTwoHotNeighbors(i, th) ==
    /\ batteryData[i].temperature >= th
    /\ Cardinality({ n \in NeighborSet(i) : batteryData[n].temperature >= th }) >= 2

\* C4 as stated: index i is a thermal-cluster member iff cell i is at 40 or
\* more and at least 2 of its neighbours are at 40 or more.
C4_Original ==
    Fresh => \A i \in Cells : (i \in clusterMarked) <=> HotWithTwoHotNeighbors(i, 4000)

\* C4 amended: index i is a thermal-cluster member iff cell i is at 45 or
\* more (ELEVATED_MAX) and at least 2 of its neighbours are at 45 or more.
C4_ClusterIffHotAt45 ==
    Fresh => \A i \in Cells : (i \in clusterMarked) <=> HotWithTwoHotNeighbors(i, ELEVATED_MAX)

\* a cell in [40,45) with two neighbours above 45 is not marked while one of
\* those neighbours is
C4_Witness ==
    /\ Fresh
    /\ \E i \in Cells :
          /\ batteryData[i].temperature >= 4000
          /\ batteryData[i].temperature < 4500
          /\ HotWithTwoHotNeighbors(i, 4000)
          /\ i \notin clusterMarked
          /\ \E n \in NeighborSet(i) : n \in clusterMarked

CriticalSet == { i \in Cells : batteryData[i].anomalyStatus = "CRITICAL" }
WarningSet == { i \in Cells : batteryData[i].anomalyStatus = "WARNING" }
ClusterSet == { i \in Cells : HotWithTwoHotNeighbors(i, ELEVATED_MAX) }

\* C5: after updateAnomalyStatus the banner is THERMAL CLUSTER DETECTED iff
\* some cell is CRITICAL and at least 3 indices are cluster members, CRITICAL
\* iff some cell is CRITICAL and fewer than 3 are, WARNING iff no cell is
\* CRITICAL and some cell is WARNING, NORMAL otherwise.
C5_BannerOfPack ==
    Fresh =>
        /\ statusText = "THERMAL CLUSTER DETECTED"
              <=> (CriticalSet # {} /\ Cardinality(ClusterSet) >= 3)
        /\ statusText = "CRITICAL"
              <=> (CriticalSet # {} /\ Cardinality(ClusterSet) < 3)
        /\ statusText = "WARNING" <=> (CriticalSet = {} /\ WarningSet # {})
        /\ statusText = "NORMAL" <=> (CriticalSet = {} /\ WarningSet = {})

\* the cluster banner is up with exactly 3 members, none of them CRITICAL or
\* next to the CRITICAL cell
C5_Witness ==
    /\ Fresh
    /\ statusText = "THERMAL CLUSTER DETECTED"
    /\ Cardinality(ClusterSet) = 3
    /\ \A c \in CriticalSet : c \notin ClusterSet /\ NeighborSet(c) \cap ClusterSet = {}

C7_AppendsEqualTicks == Len(appended) = nTicks

\* cell i of the next state differs from this state's in no field / in the
\* temperature only / in the voltage only, the anomaly status apart
SamePhysical(i) ==
    [batteryData'[i] EXCEPT !.anomalyStatus = batteryData[i].anomalyStatus] = batteryData[i]
OnlyTemperature(i) ==
    [batteryData'[i] EXCEPT !.anomalyStatus = batteryData[i].anomalyStatus,
                            !.temperature = batteryData[i].temperature] = batteryData[i]
OnlyVoltage(i) ==
    [batteryData'[i] EXCEPT !.anomalyStatus = batteryData[i].anomalyStatus,
                            !.voltage = batteryData[i].voltage] = batteryData[i]

NotLowered(i) == batteryData'[i].temperature >= batteryData[i].temperature

IsolatedEffect(raised) ==
    \E i \in Cells :
        /\ OnlyTemperature(i)
        /\ batteryData'[i].temperature >= CRITICAL
        /\ raised => NotLowered(i)
        /\ \A j \in Cells \ {i} : SamePhysical(j)

ClusterEffect(raised) ==
    LET centre == lastOp'.index
        touched == { j \in Cells \ {centre} : ~SamePhysical(j) }
    IN /\ OnlyTemperature(centre)
       /\ batteryData'[centre].temperature >= NORMAL_MAX
       /\ raised => NotLowered(centre)
       /\ touched \subseteq NeighborSet(centre)
       /\ Cardinality(touched) <= 3
       /\ \A j \in touched : /\ OnlyTemperature(j)
                             /\ batteryData'[j].temperature >= NORMAL_MAX
                             /\ raised => NotLowered(j)

\* the voltage written is 1.15 times sum / n of the voltages before the
\* write, to the millivolt
VoltageEffect ==
    LET sum == SumVoltage(batteryData)
        n == Length(batteryData)
    IN \E i \in Cells :
        /\ OnlyVoltage(i)
        /\ 115 * sum - batteryData'[i].voltage * n * 100 >= 0
        /\ 115 * sum - batteryData'[i].voltage * n * 100 < n * 100
        /\ \A j \in Cells \ {i} : SamePhysical(j)

FaultEffect(raised) ==
    \/ lastOp'.fault = "isolated" /\ IsolatedEffect(raised)
    \/ lastOp'.fault = "cluster" /\ ClusterEffect(raised)
    \/ lastOp'.fault = "voltage" /\ VoltageEffect

\* C8 as stated: every simulateFault raises one cell to 55 or more, or raises
\* the centre and at most 3 neighbours to 40 or more, or sets one voltage to
\* 1.15 times the average before the write, and changes nothing else, where
\* raised means the new temperature is not lower than the old one.
C8_Original == [][lastOp'.fault # "none" => FaultEffect(TRUE)]_vars

\* C8 amended: every simulateFault sets one cell's temperature to 55 or more,
\* or sets the centre and at most 3 neighbours to 40 or more, or sets one
\* voltage to 1.15 times the average before the write, and changes nothing
\* else; the temperature written may be lower than the one it replaces.
C8_FaultEffects == [][lastOp'.fault # "none" => FaultEffect(FALSE)]_vars

\* the fault timer has just injected a cluster: the centre and its first
\* three neighbours are in [45,50), one cell beside them is hotter
C8_Witness ==
    /\ lastOp.handler = "faultTimer"
    /\ lastOp.fault = "cluster"
    /\ \A j \in {lastOp.index} \cup { getNeighbors(lastOp.index)[k] : k \in 1 .. 3 } :
          batteryData[j].temperature >= 4500 /\ batteryData[j].temperature < 5000
    /\ \E j \in Cells : batteryData[j].temperature >= 5500

\* C9: getNeighbors(i) lists distinct indices of [0,96), none equal to i,
\* each at Chebyshev distance 1 from i on the 8x12 grid: 3 for a corner, 5
\* for another edge cell, 8 for an interior cell; and j is listed for i iff
\* i is listed for j.
C9_NeighborsContract ==
    call.fn = "getNeighbors" =>
        LET i == call.arg
            nb == call.ret
            row == i \div 12
            col == i % 12
            onRowEdge == row \in {0, 7}
            onColEdge == col \in {0, 11}
        IN /\ \A k \in 1 .. Len(nb) :
                /\ nb[k] \in 0 .. 95
                /\ nb[k] # i
                /\ Max(Abs((nb[k] \div 12) - row), Abs((nb[k] % 12) - col)) = 1
           /\ \A k, l \in 1 .. Len(nb) : k # l => nb[k] # nb[l]
           /\ Len(nb) = IF onRowEdge /\ onColEdge THEN 3
                        ELSE IF onRowEdge \/ onColEdge THEN 5 ELSE 8
           /\ \A j \in 0 .. 95 :
                (\E k \in 1 .. Len(nb) : nb[k] = j) <=> (i \in NeighborSet(j))

\* getNeighbors was called for the top-right corner
C9_Witness ==
    /\ call.fn = "getNeighbors"
    /\ call.arg = 11
    /\ call.ret = <<10, 22, 23>>

\* C10: after detectAnomalies every cell with soh < 70 is CRITICAL, whatever
\* its temperature and voltage.
C10_LowSohCritical ==
    call.fn = "detectAnomalies" =>
        \A i \in Cells :
            batteryData[i].soh < 7000 => batteryData[i].anomalyStatus = "CRITICAL"

\* detection ran on a cell with soh 65 at 25 degrees whose voltage is more
\* than 10% off the average, and on one just under 70
C10_Witness ==
    /\ call.fn = "detectAnomalies"
    /\ \E i \in Cells :
          /\ batteryData[i].soh \in {6500, 6999}
          /\ batteryData[i].temperature = 2500
          /\ 10 * Abs(batteryData[i].voltage * 96 - SumVoltage(batteryData))
                > SumVoltage(batteryData)
          /\ batteryData[i].anomalyStatus = "CRITICAL"

\* 'CELL-' followed by n zero-padded to 3 digits
CellToken(n) ==
    "CELL-" \o (IF n < 10 THEN "00" ELSE IF n < 100 THEN "0" ELSE "") \o ToString(n)

\* C11: after generateBatteryData and after any sequence of ticks and fault
\* injections the pack has exactly 96 cells, cell i has row = i div 12,
\* col = i mod 12 and the distinct id 'CELL-' + (i+1) padded to 3 digits;
\* invoking generateBatteryData again replaces the pack by 96 new cells.
C11_PackTopology ==
    /\ Cells = 0 .. 95
    /\ Cardinality(Cells) = 96
    /\ \A i \in Cells :
          /\ batteryData[i].row = i \div 12
          /\ batteryData[i].col = i % 12
          /\ batteryData[i].row * 12 + batteryData[i].col = i
          /\ batteryData[i].id = CellToken(i + 1)
    /\ Cardinality({ batteryData[i].id : i \in Cells }) = 96
    /\ lastOp.handler = "generateBatteryData" =>
          \A i \in Cells :
              /\ batteryData[i].anomalyStatus = "NORMAL"
              /\ batteryData[i].temperature >= 2500 /\ batteryData[i].temperature <= 3500
              /\ batteryData[i].voltage >= 3600 /\ batteryData[i].voltage <= 3800

\* the pack was generated again after a fault had put a cell at 55 or more
\* and a tick had run; the last cell is CELL-096 at row 7, column 11
C11_Witness ==
    /\ lastOp.handler = "generateBatteryData"
    /\ nTicks >= 1
    /\ \E k \in 1 .. Len(appended) : appended[k].max >= 5500
    /\ batteryData[95].id = "CELL-096"
    /\ batteryData[95].row = 7
    /\ batteryData[95].col = 11
    /\ batteryData[9].id = "CELL-010"

\* the voltage of cell i is more than 10% off the mean voltage of the pack
VoltageDeviates(i) ==
    LET sum == SumVoltage(batteryData)
    IN 10 * Abs(batteryData[i].voltage * 96 - sum) > sum

\* C12: the voltage rule escalates only NORMAL to WARNING and leaves a
\* CRITICAL set by the temperature rule; after detection a cell is WARNING
\* iff its voltage is more than 10% off the pack average, its temperature
\* is at most 55 and its soh at least 70.
C12_WarningIffVoltage ==
    call.fn = "detectAnomalies" =>
        \A i \in Cells :
            /\ batteryData[i].anomalyStatus = "WARNING"
                  <=> /\ batteryData[i].temperature <= 5500
                      /\ batteryData[i].soh >= 7000
                      /\ VoltageDeviates(i)
            /\ batteryData[i].temperature > 5500
                  => batteryData[i].anomalyStatus = "CRITICAL"

\* detection ran on a cell at 56 with soh 70 whose voltage deviates: it is
\* CRITICAL; the banner shows that no cell is WARNING
C12_Witness ==
    /\ call.fn = "detectAnomalies"
    /\ statusText = "CRITICAL"
    /\ \E i \in Cells :
          /\ batteryData[i].temperature = 5600
          /\ batteryData[i].soh = 7000
          /\ VoltageDeviates(i)
          /\ batteryData[i].anomalyStatus = "CRITICAL"

\* the fields of cell i set by the constructor and by nothing else
Identity(cell) ==
    <<cell.id, cell.row, cell.col, cell.soh, cell.resistance, cell.cycles>>

\* what one handler run may write: never an identity field; a fault handler
\* neither soc nor current, and only one of temperature and voltage per
\* cell; the fault timer, which does not run the detection, no anomalyStatus
FrameStep ==
    \A i \in Cells :
        /\ Identity(batteryData'[i]) = Identity(batteryData[i])
        /\ lastOp'.handler \in {"faultTimer", "manualFaultSimulation"} =>
              /\ batteryData'[i].soc = batteryData[i].soc
              /\ batteryData'[i].current = batteryData[i].current
              /\ OnlyTemperature(i) \/ OnlyVoltage(i)
        /\ lastOp'.handler = "faultTimer" =>
              batteryData'[i].anomalyStatus = batteryData[i].anomalyStatus

\* every soh is in [80,100], and right after a detection pass a CRITICAL
\* cell is one above 55 degrees
SohAsCreated ==
    /\ \A i \in Cells : batteryData[i].soh >= 8000 /\ batteryData[i].soh <= 10000
    /\ Fresh => \A i \in Cells :
          batteryData[i].anomalyStatus = "CRITICAL" => batteryData[i].temperature > 5500

\* C13: no handler changes a cell's id, row, col, soh, resistance or cycles;
\* a tick writes only temperature, voltage, current, soc (and the status the
\* detection sets), a fault only temperature or voltage; so every soh is
\* its creation value in [80,100] and no cell is CRITICAL by the soh rule.
C13_Frame == [](SohAsCreated) /\ [][FrameStep]_vars

\* three handlers have run, the last a tick; a cell is CRITICAL, and every
\* identity field is still the one generateBatteryData gave
C13_Witness ==
    /\ now = 3
    /\ lastOp.handler = "updateLoop"
    /\ CriticalSet # {}
    /\ \E i \in Cells : batteryData[i].voltage = 4200
    /\ \E seed \in GenSeeds :
          \A i \in Cells :
              Identity(batteryData[i]) = Identity(generateBatteryData(seed)[i])

\* C14: in every handler the detection runs before the metrics are
\* aggregated, so right after a tick or a manual fault handler the published
\* warning and critical counts are the numbers of cells whose anomalyStatus
\* is WARNING and CRITICAL.
C14_CountsMatch ==
    Fresh => /\ metrics.warningCells = Cardinality(WarningSet)
             /\ metrics.faultyCells = Cardinality(CriticalSet)

\* the part of C14 the code keeps: the counts published by a tick are the
\* counts of the pack the tick leaves
C14_TickCountsMatch ==
    lastOp.handler = "updateLoop" =>
        /\ metrics.warningCells = Cardinality(WarningSet)
        /\ metrics.faultyCells = Cardinality(CriticalSet)

\* the cells a thermal-cluster fault at centre writes: the centre and the
\* first three indices getNeighbors lists
ClusterTargets(centre) ==
    LET nb == getNeighbors(centre) IN {centre, nb[1], nb[2], nb[3]}

\* no cell above 55 degrees and none under 70 % soh
NothingCritical ==
    \A i \in Cells : batteryData[i].temperature <= 5500 /\ batteryData[i].soh >= 7000

\* a step of a fault handler that injected a thermal cluster
ClusterStep ==
    \E targets \in { ClusterTargets(lastOp'.index) } :
    \E members \in { { i \in targets : isThermalCluster(batteryData', i) } } :
        /\ Len(getNeighbors(lastOp'.index)) >= 3
        /\ Cardinality(targets) = 4
        /\ \A i \in targets : /\ batteryData'[i].temperature >= 4500
                              /\ batteryData'[i].temperature < 5000
        /\ \A i \in Cells \ targets : SamePhysical(i)
        /\ Cardinality(members) >= 3
        /\ NothingCritical =>
              IF lastOp'.handler = "manualFaultSimulation"
              THEN /\ statusText' \in {"NORMAL", "WARNING"}
                   /\ \A i \in Cells : batteryData'[i].anomalyStatus # "CRITICAL"
                   /\ members \subseteq clusterMarked'
              ELSE updateAnomalyStatus(detectAnomalies(batteryData'))
                      \in {"NORMAL", "WARNING"}

\* C15: a thermal-cluster fault writes a temperature in [45,50) to the
\* centre and to the first 3 of its neighbours, always exactly 4 cells, and
\* makes at least 3 cells cluster members; it makes no cell CRITICAL: from a
\* pack with no cell above 55 degrees or under 70 % soh, the detection that
\* follows leaves a banner that is neither THERMAL CLUSTER DETECTED nor
\* CRITICAL.
C15_ClusterFault ==
    [][lastOp'.fault = "cluster" /\ lastOp'.handler \in {"faultTimer", "manualFaultSimulation"}
          => ClusterStep]_vars

\* the manual handler has just injected a cluster centred on the top edge:
\* four cells are in [45,50), three cells are cluster members, no cell is
\* CRITICAL and the banner is not a critical one
C15_Witness ==
    /\ lastOp.handler = "manualFaultSimulation"
    /\ lastOp.fault = "cluster"
    /\ lastOp.index \div 12 = 0
    /\ \A i \in ClusterTargets(lastOp.index) :
          batteryData[i].temperature >= 4500 /\ batteryData[i].temperature < 5000
    /\ Cardinality(clusterMarked) = 3
    /\ CriticalSet = {}
    /\ statusText \in {"NORMAL", "WARNING"}

====
